---- MODULE Spec2Model ----
(***************************************************************************)
(* Intra-alignment variant calling of pav3 (src/pav3/call/intra.py).       *)
(*                                                                         *)
(* variant_tables_snv_insdel walks the chromosomes of an alignment table,  *)
(* turns the operation stream of every alignment record into SNV, INS and  *)
(* DEL rows, sorts the rows of a chromosome, optionally spills the sorted  *)
(* chromosome tables to parquet files, and returns the concatenation of    *)
(* the chromosome tables.  variant_flag_inv filters the clustering result. *)
(*                                                                         *)
(* Coordinates are 0-based as in the source; a Python string s is a        *)
(* sequence whose element i + 1 is s[i].                                   *)
(***************************************************************************)
EXTENDS Integers, Sequences, FiniteSets, TLC

VARIABLES
    df_align,          \* the alignment table (input), a sequence of records
    temp_dir_name,     \* "none" (None), "tmp" (a directory), "missing" (no such directory)
    pc,                \* position in variant_tables_snv_insdel
    chrom_list,        \* sorted unique chromosome names
    chrom_i,           \* index into chrom_list of the chromosome being processed
    rows_iter,         \* records of the current chromosome still to be processed
    df_chrom_list,     \* per-record tables of the current chromosome
    df_sorted,         \* the sorted chromosome tables df_snv / df_insdel, one per chromosome
    chrom_table_list,  \* the LazyFrames to concatenate
    files,             \* content of the temporary directory: file name -> table
    df_cluster,        \* result of cluster_table (variant_flag_inv)
    df_flag,           \* table returned by variant_flag_inv
    pc_flag,           \* position in variant_flag_inv
    flag_i,            \* variant_tables_inv: 1-based index of the df_flag row at hand
    variant_table_list, \* variant_tables_inv: the inversion rows found so far
    df_inv,            \* table returned by variant_tables_inv
    pc_inv             \* position in variant_tables_inv

vars == <<df_align, temp_dir_name, pc, chrom_list, chrom_i, rows_iter, df_chrom_list,
          df_sorted, chrom_table_list, files, df_cluster, df_flag, pc_flag,
          flag_i, variant_table_list, df_inv, pc_inv>>

\* The state of variant_tables_inv
inv_vars == <<flag_i, variant_table_list, df_inv, pc_inv>>

(***************************************************************************)
(* Bounds of the model.                                                    *)
(***************************************************************************)
MaxOps == 2          \* operations per record (operation-stream specification)
MaxOpLen == 2        \* length of one operation
MaxRecords == 2      \* records of an alignment table (table specification)
MaxClusterRows == 2  \* rows of a clustering result
MaxFlags == 2        \* flags of one clustering row

(***************************************************************************)
(* Generic helpers.                                                        *)
(***************************************************************************)
Min(a, b) == IF a < b THEN a ELSE b

Max(a, b) == IF a > b THEN a ELSE b

Range(s) == {s[i] : i \in DOMAIN s}

RECURSIVE Concat(_)
\* pl.concat of a list of tables
Concat(tables) ==
    IF tables = <<>> THEN <<>> ELSE Head(tables) \o Concat(Tail(tables))

RECURSIVE LexLess(_, _)
\* Lexicographic order of two integer tuples of the same length
LexLess(k1, k2) ==
    IF k1 = <<>> THEN FALSE
    ELSE IF Head(k1) # Head(k2) THEN Head(k1) < Head(k2)
    ELSE LexLess(Tail(k1), Tail(k2))

RECURSIVE MinFirstOrders(_, _)
\* The orders of the index set idx in which keys never decrease
MinFirstOrders(keys, idx) ==
    IF idx = {} THEN {<<>>}
    ELSE UNION {
        {<<i>> \o t : t \in MinFirstOrders(keys, idx \ {i})} :
        i \in {j \in idx : \A k \in idx : ~LexLess(keys[k], keys[j])}}

\* DataFrame.sort without maintain_order: every arrangement of the rows that
\* is ordered by the key is a possible result (rows of equal key in any order).
SortOutcomes(rows, keys) ==
    {[i \in 1..Len(rows) |-> rows[p[i]]] : p \in MinFirstOrders(keys, DOMAIN rows)}

\* Rank of a string in the lexicographic order of the names of the model
StrRank(s) ==
    CASE s = "A" -> 1 [] s = "C" -> 2 [] s = "G" -> 3 [] s = "N" -> 4 [] s = "T" -> 5
      [] s = "chr1" -> 1 [] s = "chr2" -> 2
      [] s = "q1" -> 1 [] s = "q2" -> 2

(***************************************************************************)
(* Sequences: the reference and query FASTA content.                       *)
(***************************************************************************)
Chroms == {"chr1", "chr2"}

QryIds == {"q1", "q2"}

Bases == <<"A", "C", "G", "T">>

Positions == {0, 1}    \* reference start of a record

QryStarts == {0, 1}    \* the record's own qry_pos column

Scores == {1, 2}       \* alignment scores

RefLen == 1 + MaxOps * MaxOpLen + 1

QryLen(qry_id) == 1 + MaxOps * MaxOpLen + (IF qry_id = "q1" THEN 0 ELSE 1)

\* ref_cache[chrom]
RefSeq(chrom) ==
    [i \in 1..RefLen |-> Bases[((i * i + StrRank(chrom)) % 4) + 1]]

\* qry_cache[qry_id]
QrySeq(qry_id) ==
    [i \in 1..QryLen(qry_id) |-> Bases[((((i * (i + 1)) \div 2) + 2 * StrRank(qry_id)) % 4) + 1]]

\* Python index normalisation of a slice bound
PyBound(i, n) == IF i < 0 THEN Max(i + n, 0) ELSE Min(i, n)

\* Python s[lo:hi]
PySlice(s, lo, hi) == SubSeq(s, PyBound(lo, Len(s)) + 1, PyBound(hi, Len(s)))

\* Python s[i] for an index inside the string
PyIndex(s, i) == IF i < 0 THEN s[i + Len(s) + 1] ELSE s[i + 1]

\* COMPL_TR_FROM -> COMPL_TR_TO
Compl(b) ==
    CASE b = "A" -> "T" [] b = "T" -> "A" [] b = "C" -> "G" [] b = "G" -> "C"
      [] OTHER -> "N"

\* Bio.Seq.Seq(s).reverse_complement()
reverse_complement(s) == [i \in 1..Len(s) |-> Compl(s[Len(s) + 1 - i])]

(***************************************************************************)
(* Alignment operations and the score model.                               *)
(***************************************************************************)
OpCodes == {"=", "X", "I", "D", "S", "H", "N"}

ADV_REF_ARR == {"=", "X", "D", "N"}

ADV_QRY_ARR == {"=", "X", "I", "S"}

\* score_model.gap(n): an affine gap penalty
gap(n) == 0 - (4 + 2 * n)

\* score_model.mismatch(1)
varscore_snv == 0 - 4

(***************************************************************************)
(* One alignment record: lines 138-312 of variant_tables_snv_insdel.       *)
(***************************************************************************)

\* Lines 183 and 187: the running query coordinate starts at 0 (cum_sum of the
\* query advances, shifted with fill_value=0), whatever the record's qry_pos is
qry_seed_record(rec) == rec.qry_pos

qry_seed(rec) == 0

\* Lines 162-191: explode the record's operations and give each operation its
\* running coordinates.  The reference coordinate is seeded with the record's
\* pos, the query coordinate with qry_seed.
ExplodeOps(rec) ==
    LET ops == rec.align_ops
        qry_len(i) == IF ops[i].op_code \in ADV_QRY_ARR THEN ops[i].op_len ELSE 0
        ref_len(i) == IF ops[i].op_code \in ADV_REF_ARR THEN ops[i].op_len ELSE 0
        RECURSIVE cum_ref(_), cum_qry(_)
        cum_ref(i) == IF i = 0 THEN 0 ELSE cum_ref(i - 1) + ref_len(i)
        cum_qry(i) == IF i = 0 THEN 0 ELSE cum_qry(i - 1) + qry_len(i)
    IN  [i \in 1..Len(ops) |->
            [chrom |-> rec.chrom, qry_id |-> rec.qry_id, is_rev |-> rec.is_rev,
             op_code |-> ops[i].op_code, op_len |-> ops[i].op_len,
             end |-> cum_ref(i) + rec.pos,
             qry_end |-> qry_seed(rec) + cum_qry(i),
             pos |-> cum_ref(i - 1) + rec.pos,
             qry_pos |-> qry_seed(rec) + cum_qry(i - 1),
             align_source |-> <<rec.align_index>>,
             _align_score |-> rec.score]]

RemapRevSequential(df, is_rev, qry_len) ==
    IF is_rev
    THEN [i \in DOMAIN df |->
            [df[i] EXCEPT !.qry_pos = qry_len - df[i].qry_end,
                          !.qry_end = qry_len - (qry_len - df[i].qry_end)]]
    ELSE df

\* Lines 193-200: on a reverse record, remap the query interval of every
\* operation to original-contig space (both columns from the old values).
RemapRev(df, is_rev, qry_len) ==
    IF is_rev
    THEN [i \in DOMAIN df |->
            [df[i] EXCEPT !.qry_pos = qry_len - df[i].qry_end,
                          !.qry_end = qry_len - df[i].qry_pos]]
    ELSE df

\* Lines 156-159: the inserted sequence of an operation
get_ins_seq(is_rev, seq_qry, coords) ==
    IF is_rev
    THEN reverse_complement(PySlice(seq_qry, coords.qry_pos, coords.qry_end))
    ELSE PySlice(seq_qry, coords.qry_pos, coords.qry_end)

snv_offsets_first(op_len) == <<0>>

\* Lines 208-210: pl.int_ranges(0, op_len), the offsets of a mismatch run
snv_offsets(op_len) == [o \in 1..op_len |-> o - 1]

RECURSIVE ExplodeOffsets(_)
\* Line 211: explode('_offset_pos'), one row per offset of every mismatch run
ExplodeOffsets(df) ==
    IF df = <<>> THEN <<>>
    ELSE [o \in DOMAIN snv_offsets(Head(df).op_len) |->
            [row |-> Head(df), offset_pos |-> snv_offsets(Head(df).op_len)[o]]]
         \o ExplodeOffsets(Tail(df))

snv_qry_pos_forward(qry_pos, op_len, offset_pos, qry_shift) == qry_pos + offset_pos

snv_qry_pos_unshifted(qry_pos, op_len, offset_pos, qry_shift) ==
    IF qry_shift = 1 THEN qry_pos + (op_len - 2 * offset_pos - 1)
    ELSE qry_pos + offset_pos

\* Lines 214-217: the query position of the SNV at an offset of a mismatch run;
\* on a reverse record (qry_shift = 1) the run is walked backwards
snv_qry_pos_expr(qry_pos, op_len, offset_pos, qry_shift) ==
    qry_pos + offset_pos + (op_len - 2 * offset_pos - 1) * qry_shift

\* Lines 203-253: the SNV table of one record
CallSnv(df, is_rev, seq_ref, seq_qry) ==
    LET qry_shift == IF is_rev THEN 1 ELSE 0
        ex == ExplodeOffsets(SelectSeq(df, LAMBDA r : r.op_code = "X"))
        snv_pos(e) == e.row.pos + e.offset_pos
        snv_qry_pos(e) ==
            snv_qry_pos_expr(e.row.qry_pos, e.row.op_len, e.offset_pos, qry_shift)
        alt(e) ==
            IF is_rev THEN Compl(PyIndex(seq_qry, snv_qry_pos(e)))
            ELSE PyIndex(seq_qry, snv_qry_pos(e))
    IN  [i \in DOMAIN ex |->
            [chrom |-> ex[i].row.chrom,
             pos |-> snv_pos(ex[i]), end |-> snv_pos(ex[i]) + 1,
             vartype |-> "SNV",
             ref |-> PyIndex(seq_ref, snv_pos(ex[i])), alt |-> alt(ex[i]),
             qry_id |-> ex[i].row.qry_id,
             qry_pos |-> snv_qry_pos(ex[i]), qry_end |-> snv_qry_pos(ex[i]) + 1,
             qry_rev |-> ex[i].row.is_rev,
             var_score |-> varscore_snv,
             align_source |-> ex[i].row.align_source,
             _align_score |-> ex[i].row._align_score,
             _index |-> i - 1]]

ins_end_at_pos(pos) == pos

\* Line 260: an insertion ends one base after its position
ins_end(pos) == pos + 1

del_qry_end_of_op(qry_pos, qry_end) == qry_end

\* Line 275: a deletion is anchored on one query base
del_qry_end(qry_pos, qry_end) == qry_pos + 1

\* Lines 256-269 and the select of lines 292-305: the INS rows of one record
CallIns(df, is_rev, seq_qry) ==
    LET d == SelectSeq(df, LAMBDA r : r.op_code = "I")
    IN  [i \in DOMAIN d |->
            [chrom |-> d[i].chrom, pos |-> d[i].pos, end |-> ins_end(d[i].pos),
             vartype |-> "INS", varlen |-> d[i].op_len,
             qry_id |-> d[i].qry_id, qry_pos |-> d[i].qry_pos, qry_end |-> d[i].qry_end,
             qry_rev |-> d[i].is_rev,
             var_score |-> gap(d[i].op_len),
             align_source |-> d[i].align_source,
             seq |-> get_ins_seq(is_rev, seq_qry, d[i]),
             _align_score |-> d[i]._align_score]]

\* Lines 271-284 and the select of lines 292-305: the DEL rows of one record
CallDel(df, seq_ref) ==
    LET d == SelectSeq(df, LAMBDA r : r.op_code = "D")
    IN  [i \in DOMAIN d |->
            [chrom |-> d[i].chrom, pos |-> d[i].pos, end |-> d[i].end,
             vartype |-> "DEL", varlen |-> d[i].op_len,
             qry_id |-> d[i].qry_id, qry_pos |-> d[i].qry_pos,
             qry_end |-> del_qry_end(d[i].qry_pos, d[i].qry_end),
             qry_rev |-> d[i].is_rev,
             var_score |-> gap(d[i].op_len),
             align_source |-> d[i].align_source,
             seq |-> PySlice(seq_ref, d[i].pos, d[i].end),
             _align_score |-> d[i]._align_score]]

\* Lines 288-291: sort key of the INS/DEL table of one record
RecordInsdelKey(r) ==
    <<r.pos, r.end, 0 - r._align_score, StrRank(r.qry_id), r.qry_pos>>

\* Lines 317-320: sort key of the SNV table of a chromosome
ChromSnvKey(r) ==
    <<r.pos, StrRank(r.alt), 0 - r.var_score, 0 - r._align_score, StrRank(r.qry_id), r.qry_pos>>

\* Lines 329-332: sort key of the INS/DEL table of a chromosome
ChromInsdelKey(r) ==
    <<r.pos, 0 - r.var_score, 0 - r._align_score, StrRank(r.qry_id), r.qry_pos>>

\* Lines 321 and 333: .drop('_align_score')
DropAlignScore(rows) ==
    [i \in DOMAIN rows |-> [f \in DOMAIN rows[i] \ {"_align_score"} |-> rows[i][f]]]

\* Lines 149-200: the operation table of a record, in original-contig coordinates
RecordOps(rec) ==
    RemapRev(ExplodeOps(rec), rec.is_rev, Len(QrySeq(rec.qry_id)))

\* Lines 203-253: df_snv of a record
RecordSnv(rec) ==
    CallSnv(RecordOps(rec), rec.is_rev, RefSeq(rec.chrom), QrySeq(rec.qry_id))

\* Lines 256-305: the possible df_insdel of a record
RecordInsdel(rec) ==
    LET rows == CallIns(RecordOps(rec), rec.is_rev, QrySeq(rec.qry_id))
                \o CallDel(RecordOps(rec), RefSeq(rec.chrom))
    IN  SortOutcomes(rows, [i \in DOMAIN rows |-> RecordInsdelKey(rows[i])])

(***************************************************************************)
(* The chromosome loop: lines 89-361 of variant_tables_snv_insdel.         *)
(***************************************************************************)

ChromListDescending(df) ==
    LET names == {df[i].chrom : i \in DOMAIN df}
    IN  [k \in 1..Cardinality(names) |->
            CHOOSE c \in names :
                Cardinality({d \in names : StrRank(d) > StrRank(c)}) = k - 1]

\* Line 106: the unique chromosome names of the table, sorted
ChromListOf(df) ==
    LET names == {df[i].chrom : i \in DOMAIN df}
        byRank == [k \in 1..Cardinality(names) |->
                      CHOOSE c \in names :
                          Cardinality({d \in names : StrRank(d) < StrRank(c)}) = k - 1]
    IN  byRank

\* Lines 138-145: the _index values of the records of a chromosome, in every
\* order .sort('qry_id') can produce
ChromRecords(df, chrom) ==
    LET idx == SelectSeq([i \in DOMAIN df |-> i - 1], LAMBDA x : df[x + 1].chrom = chrom)
    IN  SortOutcomes(idx, [k \in DOMAIN idx |-> <<StrRank(df[idx[k] + 1].qry_id)>>])

temp_file_name_of_table(dir, table, chrom) == dir \o "/" \o table \o ".parquet"

\* Lines 129-132: the name of the temporary file of a table of a chromosome
temp_file_name(dir, table, chrom) == dir \o "/" \o table \o "_" \o chrom \o ".parquet"

\* pl.scan_parquet(name) / DataFrame.lazy()
ScanParquet(name) == [kind |-> "scan", file |-> name, rows |-> <<>>]

Lazy(rows) == [kind |-> "frame", file |-> "", rows |-> rows]

\* Collecting a LazyFrame: a scan reads the file as it is at that moment
Collect(lf) == IF lf.kind = "scan" THEN files[lf.file] ELSE lf.rows

\* Collecting pl.concat(frames)
CollectConcat(frames) == Concat([i \in DOMAIN frames |-> Collect(frames[i])])

\* sink_parquet: the file is created or overwritten
WriteFile(fs, name, rows) ==
    [n \in DOMAIN fs \cup {name} |-> IF n = name THEN rows ELSE fs[n]]

NoTables == [snv |-> <<>>, insdel |-> <<>>]

AddTables(l, snv, insdel) ==
    [snv |-> Append(l.snv, snv), insdel |-> Append(l.insdel, insdel)]

chrom == chrom_list[chrom_i]

\* Lines 89-123 when the temporary directory is None or exists
Start ==
    /\ pc = "start"
    /\ temp_dir_name # "missing"
    /\ chrom_list' = ChromListOf(df_align)
    /\ chrom_i' = 1
    /\ chrom_table_list' = NoTables
    /\ pc' = "chrom"
    /\ UNCHANGED <<df_align, temp_dir_name, rows_iter, df_chrom_list, df_sorted, files,
                   df_cluster, df_flag, pc_flag, inv_vars>>

\* Lines 109-110: ValueError, the temporary directory does not exist
StartNoTempDir ==
    /\ pc = "start"
    /\ temp_dir_name = "missing"
    /\ pc' = "error"
    /\ UNCHANGED <<df_align, temp_dir_name, chrom_list, chrom_i, rows_iter, df_chrom_list,
                   df_sorted, chrom_table_list, files, df_cluster, df_flag, pc_flag, inv_vars>>

\* Lines 125-145: enter the loop body for the next chromosome
BeginChrom ==
    /\ pc = "chrom"
    /\ chrom_i <= Len(chrom_list)
    /\ \E order \in ChromRecords(df_align, chrom) : rows_iter' = order
    /\ df_chrom_list' = NoTables
    /\ pc' = "record"
    /\ UNCHANGED <<df_align, temp_dir_name, chrom_list, chrom_i, df_sorted,
                   chrom_table_list, files, df_cluster, df_flag, pc_flag, inv_vars>>

\* Lines 146-312: one record of the chromosome
ProcessRecord ==
    /\ pc = "record"
    /\ rows_iter # <<>>
    /\ LET rec == df_align[Head(rows_iter) + 1]
       IN  \E df_insdel \in RecordInsdel(rec) :
               df_chrom_list' = AddTables(df_chrom_list, RecordSnv(rec), df_insdel)
    /\ rows_iter' = Tail(rows_iter)
    /\ UNCHANGED <<df_align, temp_dir_name, pc, chrom_list, chrom_i, df_sorted,
                   chrom_table_list, files, df_cluster, df_flag, pc_flag, inv_vars>>

\* Lines 314-324: the possible sorted SNV tables of the chromosome
ChromSnv(tables) ==
    LET rows == Concat(tables)
    IN  {DropAlignScore(t) : t \in SortOutcomes(rows, [i \in DOMAIN rows |-> ChromSnvKey(rows[i])])}

\* Lines 326-336: the possible sorted INS/DEL tables of the chromosome
ChromInsdel(tables) ==
    LET rows == Concat(tables)
    IN  {DropAlignScore(t) : t \in SortOutcomes(rows, [i \in DOMAIN rows |-> ChromInsdelKey(rows[i])])}

\* Lines 314-336 and 350-355: sort the chromosome and keep the tables in memory
FinishChromMemory ==
    /\ pc = "record"
    /\ rows_iter = <<>>
    /\ temp_dir_name = "none"
    /\ \E df_snv \in ChromSnv(df_chrom_list.snv),
          df_insdel \in ChromInsdel(df_chrom_list.insdel) :
          /\ df_sorted' = AddTables(df_sorted, df_snv, df_insdel)
          /\ chrom_table_list' = AddTables(chrom_table_list, Lazy(df_snv), Lazy(df_insdel))
    /\ chrom_i' = chrom_i + 1
    /\ pc' = "chrom"
    /\ UNCHANGED <<df_align, temp_dir_name, chrom_list, rows_iter, df_chrom_list, files,
                   df_cluster, df_flag, pc_flag, inv_vars>>

\* Lines 314-348: sort the chromosome, write both tables and scan the files
FinishChromSpill ==
    /\ pc = "record"
    /\ rows_iter = <<>>
    /\ temp_dir_name = "tmp"
    /\ LET name_snv == temp_file_name(temp_dir_name, "snv", chrom)
           name_insdel == temp_file_name(temp_dir_name, "insdel", chrom)
       IN  \E df_snv \in ChromSnv(df_chrom_list.snv),
              df_insdel \in ChromInsdel(df_chrom_list.insdel) :
              /\ df_sorted' = AddTables(df_sorted, df_snv, df_insdel)
              /\ files' = WriteFile(WriteFile(files, name_snv, df_snv),
                                    name_insdel, df_insdel)
              /\ chrom_table_list' = AddTables(chrom_table_list, ScanParquet(name_snv),
                                               ScanParquet(name_insdel))
    /\ chrom_i' = chrom_i + 1
    /\ pc' = "chrom"
    /\ UNCHANGED <<df_align, temp_dir_name, chrom_list, rows_iter, df_chrom_list,
                   df_cluster, df_flag, pc_flag, inv_vars>>

\* Lines 357-361: the loop is over, return the concatenations
Return ==
    /\ pc = "chrom"
    /\ chrom_i > Len(chrom_list)
    /\ pc' = "done"
    /\ UNCHANGED <<df_align, temp_dir_name, chrom_list, chrom_i, rows_iter, df_chrom_list,
                   df_sorted, chrom_table_list, files, df_cluster, df_flag, pc_flag, inv_vars>>

\* The two tables the caller gets by collecting the returned LazyFrames
OutSnv == CollectConcat(chrom_table_list.snv)

OutInsdel == CollectConcat(chrom_table_list.insdel)

(***************************************************************************)
(* Inputs.                                                                 *)
(***************************************************************************)
Op(code, len) == [op_code |-> code, op_len |-> len]

Ops == [op_code : OpCodes, op_len : 1..MaxOpLen]

RECURSIVE SumLen(_, _)
\* Sum of op_len over the operations of a stream whose code is in codes
SumLen(ops, codes) ==
    IF ops = <<>> THEN 0
    ELSE (IF Head(ops).op_code \in codes THEN Head(ops).op_len ELSE 0)
         + SumLen(Tail(ops), codes)

\* An alignment record whose end and qry_end agree with its operations
AlignRecord(align_index, a, ops) ==
    [align_index |-> align_index, chrom |-> a.chrom, pos |-> a.pos,
     end |-> a.pos + SumLen(ops, ADV_REF_ARR),
     qry_id |-> a.qry_id, qry_pos |-> a.qry_pos,
     qry_end |-> a.qry_pos + SumLen(ops, ADV_QRY_ARR),
     is_rev |-> a.is_rev, score |-> a.score, align_ops |-> ops]

\* Attributes of the record of a one-record table
OpsAttrs ==
    [chrom : {"chr1"}, pos : Positions, qry_id : QryIds, qry_pos : QryStarts,
     is_rev : BOOLEAN, score : {1}]

\* Operation stream of the records of a table of several records: a mismatch,
\* then an insertion followed by a deletion of the same length
TableStreams ==
    {<<Op("X", 1), Op("I", MaxOpLen), Op("D", MaxOpLen)>>}

TableAttrs ==
    [chrom : Chroms, pos : {0}, qry_id : QryIds, qry_pos : {0},
     is_rev : BOOLEAN, score : Scores]

InitCall(table, dir) ==
    /\ df_align = table
    /\ temp_dir_name = dir
    /\ pc = "start"
    /\ chrom_list = <<>>
    /\ chrom_i = 0
    /\ rows_iter = <<>>
    /\ df_chrom_list = NoTables
    /\ df_sorted = NoTables
    /\ chrom_table_list = NoTables
    /\ files = <<>>
    /\ df_cluster = <<>>
    /\ df_flag = <<>>
    /\ pc_flag = "idle"
    /\ flag_i = 0
    /\ variant_table_list = <<>>
    /\ df_inv = <<>>
    /\ pc_inv = "idle"

\* Any table of 1..MaxRecords records, no alignment listed twice, with or
\* without a temporary directory
Init ==
    \E n \in 1..MaxRecords :
        \E t \in [1..n -> [a : TableAttrs, ops : TableStreams]],
           dir \in {"none", "tmp", "missing"} :
            /\ \A i, j \in 1..n : i # j => t[i] # t[j]
            /\ InitCall([i \in 1..n |-> AlignRecord(i, t[i].a, t[i].ops)], dir)

\* Any table of one record with an operation stream of 1..MaxOps operations
InitOps ==
    \E a \in OpsAttrs, n \in 1..MaxOps :
        \E ops \in [1..n -> Ops] :
            InitCall(<<AlignRecord(1, a, ops)>>, "none")

\* By how much the end or qry_end of a record may exceed what its operations
\* advance
SpanErrors == {0, 1}

\* Any table of one record with an operation stream of 1..MaxOps operations
\* whose end and qry_end agree or disagree with the operations
InitSpans ==
    \E a \in OpsAttrs, n \in 1..MaxOps :
        \E ops \in [1..n -> Ops], d_ref \in SpanErrors, d_qry \in SpanErrors :
            InitCall(<<[AlignRecord(1, a, ops) EXCEPT !.end = @ + d_ref,
                                                     !.qry_end = @ + d_qry]>>,
                     "none")

(***************************************************************************)
(* variant_flag_inv: lines 461-512.                                        *)
(***************************************************************************)
Flags == {"MATCH_INDEL", "CLUSTER_INDEL", "CLUSTER_SNV", "CLUSTER_MIXED"}

\* The flag column of a clustering row: 1..MaxFlags distinct flags
FlagLists ==
    UNION {{f \in [1..n -> Flags] : \A i, j \in 1..n : i # j => f[i] # f[j]} :
           n \in 1..MaxFlags}

FlagFilterAnySnv(df) ==
    SelectSeq(df, LAMBDA r : "CLUSTER_SNV" \notin Range(r.flag))

\* Line 511: .filter(pl.col('flag') != ['CLUSTER_SNV'])
FlagFilter(df) ==
    SelectSeq(df, LAMBDA r : r.flag # <<"CLUSTER_SNV">>)

\* Lines 483-512: cluster the variants and drop the SNV-only clusters
VariantFlagInv ==
    /\ pc_flag = "start"
    /\ df_flag' = FlagFilter(df_cluster)
    /\ pc_flag' = "done"
    /\ UNCHANGED <<df_align, temp_dir_name, pc, chrom_list, chrom_i, rows_iter,
                   df_chrom_list, df_sorted, chrom_table_list, files, df_cluster,
                   inv_vars>>

\* cluster_table returns any table of 0..MaxClusterRows flagged regions
InitFlag ==
    /\ \E n \in 0..MaxClusterRows :
           \E f \in [1..n -> FlagLists] :
               df_cluster = [i \in 1..n |-> [index |-> i - 1, flag |-> f[i]]]
    /\ df_flag = <<>>
    /\ pc_flag = "start"
    /\ df_align = <<>>
    /\ temp_dir_name = "none"
    /\ pc = "idle"
    /\ chrom_list = <<>>
    /\ chrom_i = 0
    /\ rows_iter = <<>>
    /\ df_chrom_list = NoTables
    /\ df_sorted = NoTables
    /\ chrom_table_list = NoTables
    /\ files = <<>>
    /\ flag_i = 0
    /\ variant_table_list = <<>>
    /\ df_inv = <<>>
    /\ pc_inv = "idle"

NextFlag == VariantFlagInv

\* variant_flag_inv on any clustering result
SpecFlag == InitFlag /\ [][NextFlag]_vars

Next ==
    \/ Start
    \/ StartNoTempDir
    \/ BeginChrom
    \/ ProcessRecord
    \/ FinishChromMemory
    \/ FinishChromSpill
    \/ Return

\* The steps of Next that can be taken when no temporary directory is given
NextOps ==
    \/ Start
    \/ BeginChrom
    \/ ProcessRecord
    \/ FinishChromMemory
    \/ Return

\* variant_tables_snv_insdel on alignment tables of several records
Spec == Init /\ [][Next]_vars

\* variant_tables_snv_insdel without a temporary directory on one record with
\* any operation stream
SpecOps == InitOps /\ [][NextOps]_vars

\* The call on a table of one record whose spans need not match its operations
SpecSpans == InitSpans /\ [][NextOps]_vars

(***************************************************************************)
(* variant_tables_inv: lines 364-458.                                      *)
(***************************************************************************)
MaxFlagRows == 2

MaxRegionLen == 2

None == [none |-> TRUE]

\* An alignment record of the table of a call of variant_tables_inv: the whole
\* query aligned forward from the start of the chromosome
InvAlignRecord(align_index, chrom_name, qry_id, filter) ==
    [align_index |-> align_index, chrom |-> chrom_name, pos |-> 0,
     end |-> QryLen(qry_id), qry_id |-> qry_id, qry_pos |-> 0,
     qry_end |-> QryLen(qry_id), is_rev |-> FALSE, score |-> 1,
     filter |-> filter, align_ops |-> <<Op("=", QryLen(qry_id))>>]

\* The alignment table: q1 on chr1 and q2 on chr2
InvAlignTable ==
    <<InvAlignRecord(0, "chr1", "q1", "PASS"), InvAlignRecord(1, "chr2", "q2", "LCALIGN")>>

\* The rows df_flag may hold: a region inside one alignment record
FlagRows ==
    {[chrom |-> rec.chrom, pos |-> p, end |-> p + l, align_index |-> rec.align_index] :
        rec \in Range(InvAlignTable), p \in Positions, l \in 1..MaxRegionLen}

\* Lines 419-422: the region of a df_flag row
Region(row) ==
    [chrom |-> row.chrom, pos |-> row.pos, end |-> row.end,
     pos_align_index |-> row.align_index, end_align_index |-> row.align_index]

\* try_intra_region (spec section 4.5, step 4): nothing, or an inversion row
\* over the region, its query coordinates lifted through the alignment record
try_intra_region(region_flag, table) ==
    {None} \cup
    {[chrom |-> region_flag.chrom, pos |-> region_flag.pos, end |-> region_flag.end,
      vartype |-> "INV", varlen |-> region_flag.end - region_flag.pos,
      qry_id |-> rec.qry_id,
      qry_pos |-> rec.qry_pos + (region_flag.pos - rec.pos),
      qry_end |-> rec.qry_pos + (region_flag.end - rec.pos),
      qry_rev |-> rec.is_rev,
      align_source |-> <<rec.align_index>>] :
        rec \in {r \in Range(table) : r.align_index = region_flag.pos_align_index}}

\* expr.id_nonsnv (spec section 3): chrom, pos, vartype and varlen
id_nonsnv(row) == <<row.chrom, row.pos, row.vartype, row.varlen>>

\* Lines 450-455: the left join of one inversion row with the filter column of
\* df_align on the first element of align_source
JoinFilter(row, table) ==
    LET hits == SelectSeq(table, LAMBDA r : r.align_index = row.align_source[1])
    IN  IF hits = <<>>
        THEN <<[row |-> row, filter |-> None]>>
        ELSE [h \in DOMAIN hits |-> [row |-> row, filter |-> hits[h].filter]]

\* Lines 441-458: the table built from the rows found, in the order found
InvTable(rows, table) ==
    Concat([i \in DOMAIN rows |->
               [j \in DOMAIN JoinFilter(rows[i], table) |->
                   [chrom |-> rows[i].chrom, pos |-> rows[i].pos, end |-> rows[i].end,
                    id |-> id_nonsnv(rows[i]), vartype |-> rows[i].vartype,
                    varlen |-> rows[i].varlen,
                    filter |-> JoinFilter(rows[i], table)[j].filter,
                    qry_id |-> rows[i].qry_id, qry_pos |-> rows[i].qry_pos,
                    qry_end |-> rows[i].qry_end, qry_rev |-> rows[i].qry_rev,
                    call_source |-> "INTRA",
                    align_source |-> rows[i].align_source]]])

\* Lines 385-416: parameters, tables and supporting objects; the list is empty
InvStart ==
    /\ pc_inv = "start"
    /\ variant_table_list' = <<>>
    /\ flag_i' = 1
    /\ pc_inv' = "loop"
    /\ UNCHANGED <<df_align, temp_dir_name, pc, chrom_list, chrom_i, rows_iter,
                   df_chrom_list, df_sorted, chrom_table_list, files, df_cluster,
                   df_flag, pc_flag, df_inv>>

\* Lines 418-439: one row of df_flag
InvTryRegion ==
    /\ pc_inv = "loop"
    /\ flag_i <= Len(df_flag)
    /\ \E inv_row \in try_intra_region(Region(df_flag[flag_i]), df_align) :
           variant_table_list' =
               IF inv_row # None THEN Append(variant_table_list, inv_row)
               ELSE variant_table_list
    /\ flag_i' = flag_i + 1
    /\ UNCHANGED <<df_align, temp_dir_name, pc, chrom_list, chrom_i, rows_iter,
                   df_chrom_list, df_sorted, chrom_table_list, files, df_cluster,
                   df_flag, pc_flag, df_inv, pc_inv>>

\* Lines 441-458: build and return the table
InvReturn ==
    /\ pc_inv = "loop"
    /\ flag_i > Len(df_flag)
    /\ df_inv' = InvTable(variant_table_list, df_align)
    /\ pc_inv' = "done"
    /\ UNCHANGED <<df_align, temp_dir_name, pc, chrom_list, chrom_i, rows_iter,
                   df_chrom_list, df_sorted, chrom_table_list, files, df_cluster,
                   df_flag, pc_flag, flag_i, variant_table_list>>

\* Any df_flag of 0..MaxFlagRows regions, in any order
InitInv ==
    /\ \E n \in 0..MaxFlagRows : \E f \in [1..n -> FlagRows] : df_flag = f
    /\ df_align = InvAlignTable
    /\ flag_i = 0
    /\ variant_table_list = <<>>
    /\ df_inv = <<>>
    /\ pc_inv = "start"
    /\ temp_dir_name = "none"
    /\ pc = "idle"
    /\ chrom_list = <<>>
    /\ chrom_i = 0
    /\ rows_iter = <<>>
    /\ df_chrom_list = NoTables
    /\ df_sorted = NoTables
    /\ chrom_table_list = NoTables
    /\ files = <<>>
    /\ df_cluster = <<>>
    /\ pc_flag = "idle"

NextInv ==
    \/ InvStart
    \/ InvTryRegion
    \/ InvReturn

\* variant_tables_inv on any table of flagged regions
SpecInv == InitInv /\ [][NextInv]_vars

(***************************************************************************)
(* Properties of the rows of one record (SpecOps).                         *)
(***************************************************************************)
RowsOfRecord(table, rec) ==
    SelectSeq(table, LAMBDA r : r.align_source = <<rec.align_index>>)

OfType(table, vartype) == SelectSeq(table, LAMBDA r : r.vartype = vartype)

RECURSIVE SumVarlen(_)
SumVarlen(rows) ==
    IF rows = <<>> THEN 0 ELSE Head(rows).varlen + SumVarlen(Tail(rows))

CountOps(ops, code) == Cardinality({k \in DOMAIN ops : ops[k].op_code = code})

\* Bases of the query / reference consumed by the operations before operation k
QryBefore(ops, k) == SumLen(SubSeq(ops, 1, k - 1), ADV_QRY_ARR)

RefBefore(ops, k) == SumLen(SubSeq(ops, 1, k - 1), ADV_REF_ARR)

\* Every row emitted so far into an INS/DEL table
InsdelRows == Range(Concat(df_chrom_list.insdel)) \cup Range(OutInsdel)

\* C1: coverage completeness.  When the call returns, every record has as many
\* SNV rows as the sum of the lengths of its X operations, one INS row per I
\* operation with total varlen the sum of the I lengths, one DEL row per D
\* operation with total varlen the sum of the D lengths, and no other row:
\* the operations =, S, H and N emit nothing.
CoverageComplete ==
    pc = "done" =>
        /\ \A i \in DOMAIN df_align :
              LET rec == df_align[i]
                  ops == rec.align_ops
                  snv == RowsOfRecord(OutSnv, rec)
                  insdel == RowsOfRecord(OutInsdel, rec)
              IN  /\ Len(snv) = SumLen(ops, {"X"})
                  /\ \A k \in DOMAIN snv : snv[k].vartype = "SNV"
                  /\ Len(OfType(insdel, "INS")) = CountOps(ops, "I")
                  /\ SumVarlen(OfType(insdel, "INS")) = SumLen(ops, {"I"})
                  /\ Len(OfType(insdel, "DEL")) = CountOps(ops, "D")
                  /\ SumVarlen(OfType(insdel, "DEL")) = SumLen(ops, {"D"})
                  /\ Len(insdel) = CountOps(ops, "I") + CountOps(ops, "D")
        /\ \A r \in Range(OutSnv) \cup Range(OutInsdel) :
              \E i \in DOMAIN df_align : r.align_source = <<df_align[i].align_index>>

\* C1 witness: a returned call on a record with a clip followed by a mismatch
\* run of two bases, which gave two SNV rows
CoverageCompleteWitness ==
    /\ pc = "done"
    /\ Len(df_align[1].align_ops) = 2
    /\ df_align[1].align_ops[1].op_code = "S"
    /\ df_align[1].align_ops[2] = Op("X", 2)
    /\ Len(OutSnv) = 2
    /\ OutInsdel = <<>>

\* C2: anchoring.  Every INS row has end = pos + 1 and
\* qry_end - qry_pos = varlen = len(seq); every DEL row has
\* end - pos = varlen = len(seq) and qry_end = qry_pos + 1; every row has
\* pos < end and qry_pos <= qry_end.  Forward and reverse records alike.
AnchoringInvariants ==
    \A r \in InsdelRows :
        /\ r.vartype = "INS" =>
              /\ r.end = r.pos + 1
              /\ r.qry_end - r.qry_pos = r.varlen
              /\ r.varlen = Len(r.seq)
        /\ r.vartype = "DEL" =>
              /\ r.end - r.pos = r.varlen
              /\ r.varlen = Len(r.seq)
              /\ r.qry_end = r.qry_pos + 1
        /\ r.pos < r.end
        /\ r.qry_pos <= r.qry_end

\* C2 witness: a reverse record whose insertion of two bases and deletion of
\* two bases were both returned
AnchoringInvariantsWitness ==
    /\ pc = "done"
    /\ df_align[1].is_rev
    /\ \E r \in Range(OutInsdel) : r.vartype = "INS" /\ r.varlen = 2 /\ r.qry_rev
    /\ \E r \in Range(OutInsdel) : r.vartype = "DEL" /\ r.varlen = 2 /\ r.qry_rev

\* The reverse complement of query[lo:hi], base by base
RevCompSlice(seq_qry, lo, hi) ==
    [j \in 1..(hi - lo) |-> Compl(seq_qry[hi - j + 1])]

\* The INS row claimed for operation k of a record: the aligned interval
\* [a, b) of the operation is kept on a forward record and becomes
\* [qry_len - b, qry_len - a) on a reverse record
InsRowMatches(r, rec, k) ==
    LET a == QryBefore(rec.align_ops, k)
        b == a + rec.align_ops[k].op_len
        qry_len == Len(QrySeq(rec.qry_id))
        lo == IF rec.is_rev THEN qry_len - b ELSE a
        hi == IF rec.is_rev THEN qry_len - a ELSE b
    IN  /\ r.vartype = "INS"
        /\ r.qry_pos = lo
        /\ r.qry_end = hi
        /\ r.qry_rev = rec.is_rev
        /\ r.seq = IF rec.is_rev
                   THEN RevCompSlice(QrySeq(rec.qry_id), lo, hi)
                   ELSE SubSeq(QrySeq(rec.qry_id), lo + 1, hi)

\* C3: strand handling of insertions.  The INS rows of a record are exactly
\* the rows of its I operations with the query interval remapped on a reverse
\* record (qry_pos' = qry_len - qry_end, qry_end' = qry_len - qry_pos), seq the
\* reverse complement of query[qry_pos':qry_end'] on a reverse record and the
\* slice itself on a forward record, and qry_rev the record's is_rev.
InsStrandHandling ==
    pc = "done" =>
        \A i \in DOMAIN df_align :
            LET rec == df_align[i]
                ins == OfType(RowsOfRecord(OutInsdel, rec), "INS")
            IN  /\ \A k \in DOMAIN rec.align_ops :
                      rec.align_ops[k].op_code = "I" =>
                          \E n \in DOMAIN ins : InsRowMatches(ins[n], rec, k)
                /\ \A n \in DOMAIN ins :
                      \E k \in DOMAIN rec.align_ops :
                          /\ rec.align_ops[k].op_code = "I"
                          /\ InsRowMatches(ins[n], rec, k)

\* C3 witness: a reverse record with a match and then an insertion of two
\* bases, returned with the reverse-complemented sequence
InsStrandHandlingWitness ==
    /\ pc = "done"
    /\ df_align[1].is_rev
    /\ df_align[1].align_ops = <<Op("=", 1), Op("I", 2)>>
    /\ Len(OutInsdel) = 1
    /\ OutInsdel[1].qry_pos = Len(QrySeq(df_align[1].qry_id)) - 3
    /\ Len(OutInsdel[1].seq) = 2

\* The query coordinate claimed for the row of operation k of a reverse record
\* when the running coordinate starts at seed: qry_len - (seed + a + n), with a
\* the query bases before the operation and n those of the operation
RevQryPos(rec, k, seed) ==
    Len(QrySeq(rec.qry_id))
    - (seed + QryBefore(rec.align_ops, k)
       + (IF rec.align_ops[k].op_code \in ADV_QRY_ARR THEN rec.align_ops[k].op_len ELSE 0))

\* The INS, DEL and one-base SNV rows of a reverse record have the query
\* position RevQryPos, seeded with the record's qry_pos or with 0
RevRowsSeededWith(record_qry_pos) ==
    pc = "done" =>
        \A i \in DOMAIN df_align :
            LET rec == df_align[i]
                ops == rec.align_ops
                at(k) == rec.pos + RefBefore(ops, k)
                seed == IF record_qry_pos THEN rec.qry_pos ELSE 0
            IN  rec.is_rev =>
                    \A k \in DOMAIN ops :
                        /\ ops[k].op_code = "I" =>
                              \E r \in Range(RowsOfRecord(OutInsdel, rec)) :
                                  /\ r.vartype = "INS" /\ r.pos = at(k)
                                  /\ r.qry_pos = RevQryPos(rec, k, seed)
                        /\ ops[k].op_code = "D" =>
                              \E r \in Range(RowsOfRecord(OutInsdel, rec)) :
                                  /\ r.vartype = "DEL" /\ r.pos = at(k)
                                  /\ r.qry_pos = RevQryPos(rec, k, seed)
                                  /\ r.qry_end = r.qry_pos + 1
                        /\ ops[k] = Op("X", 1) =>
                              \E r \in Range(RowsOfRecord(OutSnv, rec)) :
                                  /\ r.pos = at(k)
                                  /\ r.qry_pos = RevQryPos(rec, k, seed)
                                  /\ r.qry_end = r.qry_pos + 1

\* C4 as claimed: the query coordinates of the rows of a reverse record are
\* offset by the record's own qry_pos q0, qry_pos = Q - (q0 + a + n).
QryOffsetByRecordQryPos == RevRowsSeededWith(TRUE)

\* C4 as amended: the query coordinates of the rows of a reverse record are
\* offset from 0, not from the record's qry_pos: qry_pos = Q - (a + n).
QryOffsetFromZero == RevRowsSeededWith(FALSE)

\* C4 witness: a reverse record with qry_pos 1, a match and a deletion, whose
\* DEL row is at query position Q - 1
QryOffsetFromZeroWitness ==
    /\ pc = "done"
    /\ df_align[1].is_rev
    /\ df_align[1].qry_pos = 1
    /\ df_align[1].align_ops = <<Op("=", 1), Op("D", 2)>>
    /\ Len(OutInsdel) = 1
    /\ OutInsdel[1].qry_pos = Len(QrySeq(df_align[1].qry_id)) - 1

\* The INS row of every I operation of a forward record is at the reference
\* position p + r + shift, with end = pos + 1, varlen the operation's length
\* and the query interval [a, a + n)
InsAnchoredAt(shift) ==
    pc = "done" =>
        \A i \in DOMAIN df_align :
            LET rec == df_align[i]
                ops == rec.align_ops
            IN  \A k \in DOMAIN ops :
                    ops[k].op_code = "I" =>
                        \E r \in Range(RowsOfRecord(OutInsdel, rec)) :
                            /\ r.vartype = "INS"
                            /\ r.pos = rec.pos + RefBefore(ops, k) + shift
                            /\ r.end = r.pos + 1
                            /\ r.varlen = ops[k].op_len
                            /\ ~rec.is_rev =>
                                  /\ r.qry_pos = QryBefore(ops, k)
                                  /\ r.qry_end = QryBefore(ops, k) + ops[k].op_len

\* C5 as claimed: an INS row is recorded at the reference base before the
\* inserted sequence, pos = p + r - 1 and end = pos + 1.
InsAnchoredBefore == InsAnchoredAt(0 - 1)

\* C5 as amended: an INS row is recorded at the reference coordinate of the
\* insertion point, pos = p + r and end = pos + 1 (for pos=100 and ops
\* [(=,5),(I,4),(=,5)]: pos=105, end=106, varlen=4, qry_pos=5, qry_end=9).
InsAnchoredAtInsertionPoint == InsAnchoredAt(0)

\* C5 witness: a forward record at pos 1 with a match of two bases and an
\* insertion of two, whose INS row is at pos 3, end 4, query interval [2, 4)
InsAnchoredAtInsertionPointWitness ==
    /\ pc = "done"
    /\ ~df_align[1].is_rev
    /\ df_align[1].pos = 1
    /\ df_align[1].align_ops = <<Op("=", 2), Op("I", 2)>>
    /\ Len(OutInsdel) = 1
    /\ OutInsdel[1].pos = 3 /\ OutInsdel[1].end = 4
    /\ OutInsdel[1].qry_pos = 2 /\ OutInsdel[1].qry_end = 4

(***************************************************************************)
(* Properties of the returned tables (Spec).                               *)
(***************************************************************************)
OfChrom(table, c) == SelectSeq(table, LAMBDA r : r.chrom = c)

RecordsOfChrom(c) == SelectSeq(df_align, LAMBDA rec : rec.chrom = c)

\* The tables variant_tables_snv_insdel can return for the records of
\* chromosome c alone
PipelineSnvOn(c) ==
    LET recs == RecordsOfChrom(c)
    IN  ChromSnv([k \in DOMAIN recs |-> RecordSnv(recs[k])])

PipelineInsdelOn(c) ==
    LET recs == RecordsOfChrom(c)
    IN  ChromInsdel([k \in DOMAIN recs |-> CHOOSE t \in RecordInsdel(recs[k]) : TRUE])

ChromsNeverDecrease(table) ==
    \A i, j \in DOMAIN table :
        i < j => StrRank(table[i].chrom) <= StrRank(table[j].chrom)

\* C6: partition independence.  Each returned table is the concatenation of
\* one table per chromosome of the input in ascending chromosome order:
\* chromosomes never decrease along the output, partition k holds rows of
\* chromosome k only (so a record contributes to one partition), and the rows
\* of chromosome c are a result of the pipeline on the records of c alone.
PartitionIndependence ==
    pc = "done" =>
        LET chroms == {df_align[i].chrom : i \in DOMAIN df_align}
        IN  /\ Len(chrom_table_list.snv) = Cardinality(chroms)
            /\ Len(chrom_table_list.insdel) = Cardinality(chroms)
            /\ \A k \in DOMAIN chrom_list :
                  /\ \A r \in Range(Collect(chrom_table_list.snv[k])) :
                        r.chrom = chrom_list[k]
                  /\ \A r \in Range(Collect(chrom_table_list.insdel[k])) :
                        r.chrom = chrom_list[k]
            /\ ChromsNeverDecrease(OutSnv)
            /\ ChromsNeverDecrease(OutInsdel)
            /\ \A c \in chroms :
                  /\ OfChrom(OutSnv, c) \in PipelineSnvOn(c)
                  /\ OfChrom(OutInsdel, c) \in PipelineInsdelOn(c)

\* C6 witness: the table lists a record of chr2 before a record of chr1 and the
\* call returned the rows of chr1 before those of chr2
PartitionIndependenceWitness ==
    /\ pc = "done"
    /\ Len(df_align) = 2
    /\ df_align[1].chrom = "chr2"
    /\ df_align[2].chrom = "chr1"
    /\ Len(OutSnv) = 2
    /\ OutSnv[1].chrom = "chr1" /\ OutSnv[2].chrom = "chr2"
    /\ Len(OutInsdel) = 4

\* C7: the sort key is total.  Among the rows of a chromosome no two rows of
\* the SNV table agree on (pos, alt, var_score, _align_score, qry_id, qry_pos)
\* and no two rows of the INS/DEL table agree on
\* (pos, var_score, _align_score, qry_id, qry_pos).
SortKeyTotal ==
    LET snv == Concat(df_chrom_list.snv)
        insdel == Concat(df_chrom_list.insdel)
    IN  /\ \A i, j \in DOMAIN snv :
              i # j =>
                  <<snv[i].pos, snv[i].alt, snv[i].var_score, snv[i]._align_score,
                    snv[i].qry_id, snv[i].qry_pos>>
                  # <<snv[j].pos, snv[j].alt, snv[j].var_score, snv[j]._align_score,
                      snv[j].qry_id, snv[j].qry_pos>>
        /\ \A i, j \in DOMAIN insdel :
              i # j =>
                  <<insdel[i].pos, insdel[i].var_score, insdel[i]._align_score,
                    insdel[i].qry_id, insdel[i].qry_pos>>
                  # <<insdel[j].pos, insdel[j].var_score, insdel[j]._align_score,
                      insdel[j].qry_id, insdel[j].qry_pos>>

\* C8: sort order of the INS/DEL table.  Of two returned INS/DEL rows of the
\* same chromosome and the same pos, the one with the smaller end comes first.
InsdelOrderedByEnd ==
    pc = "done" =>
        \A i, j \in DOMAIN OutInsdel :
            (/\ i < j
             /\ OutInsdel[i].chrom = OutInsdel[j].chrom
             /\ OutInsdel[i].pos = OutInsdel[j].pos)
            => OutInsdel[i].end <= OutInsdel[j].end

SnvOnly(r) == Range(r.flag) = {"CLUSTER_SNV"}

\* C10: the INV flag filter.  The returned table holds exactly the rows of the
\* clustering result whose flag set is not {CLUSTER_SNV}, unchanged and in
\* their order; a result of {CLUSTER_SNV} rows only gives the empty table.
FlagFilterExact ==
    pc_flag = "done" =>
        /\ \A r \in Range(df_flag) : ~SnvOnly(r)
        /\ \A r \in Range(df_cluster) : ~SnvOnly(r) => r \in Range(df_flag)
        /\ \A r \in Range(df_flag) : r \in Range(df_cluster)
        /\ \A i, j \in DOMAIN df_flag : i < j => df_flag[i].index < df_flag[j].index
        /\ (\A r \in Range(df_cluster) : SnvOnly(r)) => df_flag = <<>>

\* C10 witness: of a {CLUSTER_SNV} row and a row flagged CLUSTER_SNV together
\* with MATCH_INDEL, only the second was returned
FlagFilterExactWitness ==
    /\ pc_flag = "done"
    /\ Len(df_cluster) = 2
    /\ df_cluster[1].flag = <<"CLUSTER_SNV">>
    /\ df_cluster[2].flag = <<"CLUSTER_SNV", "MATCH_INDEL">>
    /\ df_flag = <<df_cluster[2]>>

(***************************************************************************)
(* Expansion of a mismatch run into SNV rows (SpecOps).                    *)
(***************************************************************************)
\* The SNV rows of a record that lie on the reference interval of operation k
SnvRowsOfOp(rec, k) ==
    LET p == rec.pos + RefBefore(rec.align_ops, k)
    IN  SelectSeq(RowsOfRecord(OutSnv, rec),
                  LAMBDA r : p <= r.pos /\ r.pos < p + rec.align_ops[k].op_len)

\* The query start of operation k in original-contig coordinates
OpQryPos(rec, k) ==
    IF rec.is_rev
    THEN Len(QrySeq(rec.qry_id))
         - (QryBefore(rec.align_ops, k) + rec.align_ops[k].op_len)
    ELSE QryBefore(rec.align_ops, k)

\* The query offset of the SNV at offset o of a reverse run of length L: as
\* section 4.2 writes it (L - 2o - 1), or mirrored inside the run (L - 1 - o)
RevOffset(L, o, as_written) == IF as_written THEN L - 2 * o - 1 ELSE L - 1 - o

\* Every X operation of length L yields L SNV rows, the row of offset o at
\* pos + o with end = pos' + 1 and qry_end = qry_pos' + 1, at query position
\* qry_pos + o on a forward record and qry_pos + RevOffset on a reverse record
MismatchExpansion(as_written) ==
    pc = "done" =>
        \A i \in DOMAIN df_align :
            LET rec == df_align[i]
                ops == rec.align_ops
            IN  \A k \in DOMAIN ops :
                    ops[k].op_code = "X" =>
                        /\ Len(SnvRowsOfOp(rec, k)) = ops[k].op_len
                        /\ \A o \in 0..(ops[k].op_len - 1) :
                              \E r \in Range(SnvRowsOfOp(rec, k)) :
                                  /\ r.pos = rec.pos + RefBefore(ops, k) + o
                                  /\ r.end = r.pos + 1
                                  /\ r.qry_pos =
                                        OpQryPos(rec, k)
                                        + (IF rec.is_rev
                                           THEN RevOffset(ops[k].op_len, o, as_written)
                                           ELSE o)
                                  /\ r.qry_end = r.qry_pos + 1

\* C13 as stated: on a reverse record the SNV of offset o of an X operation of
\* length L lies at qry_pos' = qry_pos + (L - 2o - 1); on a forward record at
\* qry_pos + o; in both pos' = pos + o, end' = pos' + 1, qry_end' = qry_pos' + 1.
\* The code computes qry_pos + o + (L - 2o - 1) on a reverse record, so the
\* statement fails for every offset o >= 1.
MismatchExpansionAsWritten == MismatchExpansion(TRUE)

\* C13 amended: on a reverse record the SNV of offset o of an X operation of
\* length L lies at qry_pos' = qry_pos + (L - 1 - o); on a forward record at
\* qry_pos + o; in both pos' = pos + o, end' = pos' + 1, qry_end' = qry_pos' + 1,
\* and the operation yields exactly L SNV rows.
MismatchExpansionMirrored == MismatchExpansion(FALSE)

\* A reverse record with a two-base mismatch run has been called: its second
\* SNV (offset 1) lies at the query start of the run
MismatchExpansionWitness ==
    /\ pc = "done"
    /\ df_align[1].is_rev
    /\ \E k \in DOMAIN df_align[1].align_ops :
           /\ df_align[1].align_ops[k].op_code = "X"
           /\ df_align[1].align_ops[k].op_len = 2
           /\ Len(SnvRowsOfOp(df_align[1], k)) = 2
           /\ \E r \in Range(SnvRowsOfOp(df_align[1], k)) :
                  /\ r.pos = df_align[1].pos + RefBefore(df_align[1].align_ops, k) + 1
                  /\ r.qry_pos = OpQryPos(df_align[1], k)

\* C14: the L SNV rows of an X operation of length L occupy L pairwise distinct
\* one-base query intervals inside [qry_pos, qry_pos + L) of the original
\* contig and L distinct reference positions inside [pos, pos + L); on a
\* reverse record the query position strictly decreases as the reference
\* position increases (on a forward record it increases), ref is the reference
\* base at pos' and alt the query base at qry_pos', complemented on reverse.
MismatchRunInterval ==
    pc = "done" =>
        \A i \in DOMAIN df_align :
            LET rec == df_align[i]
                ops == rec.align_ops
            IN  \A k \in DOMAIN ops :
                    ops[k].op_code = "X" =>
                        LET rows == SnvRowsOfOp(rec, k)
                            L == ops[k].op_len
                            p == rec.pos + RefBefore(ops, k)
                            q == OpQryPos(rec, k)
                        IN  /\ Len(rows) = L
                            /\ \A a \in DOMAIN rows :
                                  /\ p <= rows[a].pos /\ rows[a].pos < p + L
                                  /\ q <= rows[a].qry_pos /\ rows[a].qry_pos < q + L
                                  /\ rows[a].end = rows[a].pos + 1
                                  /\ rows[a].qry_end = rows[a].qry_pos + 1
                                  /\ rows[a].ref = RefSeq(rec.chrom)[rows[a].pos + 1]
                                  /\ rows[a].alt =
                                        IF rec.is_rev
                                        THEN Compl(QrySeq(rec.qry_id)[rows[a].qry_pos + 1])
                                        ELSE QrySeq(rec.qry_id)[rows[a].qry_pos + 1]
                            /\ \A a, b \in DOMAIN rows :
                                  rows[a].pos < rows[b].pos =>
                                      IF rec.is_rev
                                      THEN rows[a].qry_pos > rows[b].qry_pos
                                      ELSE rows[a].qry_pos < rows[b].qry_pos
                            /\ \A a, b \in DOMAIN rows :
                                  a # b => /\ rows[a].pos # rows[b].pos
                                           /\ rows[a].qry_pos # rows[b].qry_pos

\* A reverse record whose two-base mismatch run follows another operation has
\* been called: its two SNVs are at decreasing query positions
MismatchRunIntervalWitness ==
    /\ pc = "done"
    /\ df_align[1].is_rev
    /\ Len(df_align[1].align_ops) = 2
    /\ df_align[1].align_ops[2].op_code = "X"
    /\ df_align[1].align_ops[2].op_len = 2
    /\ LET rows == SnvRowsOfOp(df_align[1], 2)
       IN  /\ Len(rows) = 2
           /\ rows[1].pos < rows[2].pos
           /\ rows[1].qry_pos = rows[2].qry_pos + 1

(***************************************************************************)
(* Records whose spans disagree with their operations (SpecSpans).         *)
(***************************************************************************)
\* The operations of the record do not advance the reference by end - pos or
\* the query by qry_end - qry_pos
Malformed(rec) ==
    \/ SumLen(rec.align_ops, ADV_REF_ARR) # rec.end - rec.pos
    \/ SumLen(rec.align_ops, ADV_QRY_ARR) # rec.qry_end - rec.qry_pos

\* C12: a table with a record whose reference-advancing operations do not sum
\* to end - pos, or whose query-advancing operations do not sum to
\* qry_end - qry_pos, makes the call abort: it never returns tables.  The code
\* never reads end or qry_end of a record, so the call returns.
MalformedIsFatal ==
    (\E i \in DOMAIN df_align : Malformed(df_align[i])) => pc # "done"

(***************************************************************************)
(* Order of the inversion table (SpecInv).                                 *)
(***************************************************************************)
InvKey(r) == <<r.pos, r.end, StrRank(r.qry_id), r.qry_pos>>

\* C11: the table returned by variant_tables_inv is sorted within each
\* chromosome by (pos, end, qry_id, qry_pos) ascending, whatever the order of
\* the rows of df_flag.  The code appends the rows in the order of df_flag and
\* never sorts them.
InvSortedWithinChrom ==
    pc_inv = "done" =>
        \A i, j \in DOMAIN df_inv :
            (i < j /\ df_inv[i].chrom = df_inv[j].chrom) =>
                ~LexLess(InvKey(df_inv[j]), InvKey(df_inv[i]))

====
